---------------------------- MODULE Spec2Model ----------------------------
(* State-machine model of the dubbing API client of                        *)
(* src/src/routes/+page.svelte: ApiClient.request (the timed fetch with    *)
(* error normalisation), its three callers, and the status poller          *)
(* ApiClient.pollPipelineStatus.  Time is in milliseconds.                 *)
EXTENDS Integers, Sequences, FiniteSets, TLC

VARIABLES
    op,                 \* the client operation invoked in this behaviour
    now,                \* Date.now()
    rpc,                \* position of request(): idle, fetch, errbody, okbody, returned, thrown
    rStart,             \* Date.now() when request() was entered
    timeoutId,          \* deadline of the pending abort timer, NoTimer when none
    aborted,            \* controller.signal.aborted
    timerFired,         \* the abort timer's callback has run
    response,           \* the Response fetch resolved with (status 0: none yet)
    body,               \* how the body of a non-success response settled
    result,             \* what request() returned or threw
    ppc,                \* position of the poll loop: idle, awaiting, scheduled, stopped
    startTime,          \* startTime of pollPipelineStatus
    consecutiveErrors,  \* consecutiveErrors of pollPipelineStatus
    pollTimer,          \* deadline of the pending setTimeout(poll, ..), NoTimer when none
    pollDelay,          \* delay the last setTimeout(poll, ..) was given
    pollPromise,        \* promise returned by pollPipelineStatus
    lastStatus,         \* the status the last successful getPipelineStatus returned
    lastError,          \* which onError message was passed last
    lastCycle,          \* the callbacks the last cycle of poll() invoked, in order
    cnt,                \* observation counters (calls made, callbacks invoked)
    up,                 \* the XMLHttpRequest and the promise of uploadFile
    sync                \* the landing page: showComingSoon and its pending timers

reqVars  == <<rpc, rStart, timeoutId, aborted, timerFired, response, body, result>>
pollVars == <<ppc, startTime, consecutiveErrors, pollTimer, pollDelay,
              pollPromise, lastStatus, lastError, lastCycle, cnt>>
vars     == <<op, now, reqVars, pollVars, up, sync>>

-----------------------------------------------------------------------------
(* Program constants *)

API_TIMEOUT == 30000

pollInterval == 3000

maxConsecutiveErrors == 10

maxDuration == 24 * 60 * 60 * 1000

errorIntervalCap == 30000

uploadTimeout == 600000

comingSoonDelay == 5000

(* Bounds of the model *)

MaxCalls == 11

MaxOk == 2

MaxThrows == 1

FastLatency == 200

StallStep == 50000000

MaxStalls == 2

MaxAborts == 1

MaxProgress == 3

MaxClicks == 3

LateStart == 86391000

NoTimer == -1

Undefined == "<undefined>"

Min(a, b) == IF a <= b THEN a ELSE b

-----------------------------------------------------------------------------
(* Values *)

\* new ApiClientError(code, message, status)
ApiClientError(code, message, status) ==
    [class |-> "ApiClientError", name |-> "ApiClientError",
     code |-> code, message |-> message, status |-> status]

\* an Error that is not an ApiClientError (TypeError, SyntaxError, DOMException)
JsError(name, message) ==
    [class |-> "Error", name |-> name,
     code |-> Undefined, message |-> message, status |-> 0]

NoError == [class |-> "none", name |-> "", code |-> "", message |-> <<>>, status |-> 0]

NoStatus == [status |-> "", error_message |-> ""]

NoResult == [kind |-> "none", value |-> NoStatus, error |-> NoError]

Returned(v) == [kind |-> "value", value |-> v, error |-> NoError]

Thrown(e) == [kind |-> "error", value |-> NoStatus, error |-> e]

NoResponse == [status |-> 0, statusText |-> ""]

\* the decimal text of a response status, as template interpolation gives it
DecimalOf(n) ==
    CASE n = 200 -> "200"
      [] n = 404 -> "404"
      [] n = 502 -> "502"
      [] OTHER   -> "0"

HttpResponses ==
    { [status |-> 200, statusText |-> "OK"],
      [status |-> 404, statusText |-> "Not Found"],
      [status |-> 502, statusText |-> ""] }

\* Responses explored per operation: the poll loop treats every failed status
\* check alike, so one non-success status is explored under it.
ResponsesOf(o) ==
    IF o = "pollPipelineStatus"
    THEN {r \in HttpResponses : r.status \in {200, 502}}
    ELSE HttpResponses

\* response.ok
Ok(r) == r.status >= 200 /\ r.status < 300

\* Bodies a non-success response can carry.  json: the text parses as JSON;
\* isNull: it parses to null; code/message: the members of the parsed object
\* (Undefined when the member is missing).
ErrorBodies ==
    { [json |-> TRUE,  isNull |-> FALSE, code |-> "PIPELINE_NOT_FOUND", message |-> <<"no such pipeline">>],
      [json |-> TRUE,  isNull |-> FALSE, code |-> Undefined,            message |-> <<"only a message">>],
      [json |-> TRUE,  isNull |-> FALSE, code |-> Undefined,            message |-> <<>>],
      [json |-> TRUE,  isNull |-> TRUE,  code |-> Undefined,            message |-> <<>>],
      [json |-> FALSE, isNull |-> FALSE, code |-> Undefined,            message |-> <<>>] }

\* Error bodies explored per operation (see ResponsesOf)
ErrorBodiesOf(o) ==
    IF o = "pollPipelineStatus"
    THEN {b \in ErrorBodies : b.code # Undefined \/ ~b.json}
    ELSE ErrorBodies

NoBody == [json |-> FALSE, isNull |-> FALSE, code |-> "", message |-> <<>>]

\* a body is a well-formed {code, message} object
WellFormed(b) == b.json /\ ~b.isNull /\ b.code # Undefined /\ b.message # <<>>

Statuses == {"pending", "completed", "failed"}

ErrorMessages == {"", "voice synthesis failed"}

\* DubbingPipelineStatus values a success response can carry
PipelineStatuses == [status : Statuses, error_message : ErrorMessages]

\* a status that is neither completed nor failed and carries no error message
NonTerminal(s) == s.status \notin {"completed", "failed"} /\ s.error_message = ""

\* Values request() can return on a success response, per operation.  Only
\* getPipelineStatus results are inspected by this client; the upload ticket
\* and the initial pipeline record are opaque to it.
OkValues(o) ==
    IF o \in {"getPipelineStatus", "pollPipelineStatus"}
    THEN PipelineStatuses
    ELSE {[status |-> "pending", error_message |-> ""]}

-----------------------------------------------------------------------------
(* ApiClient.request *)

\* clearTimeout omitted: the timer stays pending
ClearTimeoutLeak(id) == id

\* clearTimeout(timeoutId)
ClearTimeout(id) == NoTimer

\* the catch block without its instanceof ApiClientError test: an error built
\* from the response is re-wrapped like a transport error
NormalizeWrapAll(error) ==
    IF error.class \in {"ApiClientError", "Error"}
    THEN IF error.name = "AbortError"
         THEN ApiClientError("TIMEOUT", <<"Request timeout">>, 0)
         ELSE ApiClientError("NETWORK_ERROR", <<"Network error: ">> \o error.message, 0)
    ELSE ApiClientError("UNKNOWN_ERROR", <<"Unknown error occurred">>, 0)

\* the catch block of request(): what is thrown to the caller for a caught error
Normalize(error) ==
    IF error.class = "ApiClientError" THEN error
    ELSE IF error.class = "Error"
         THEN IF error.name = "AbortError"
              THEN ApiClientError("TIMEOUT", <<"Request timeout">>, 0)
              ELSE ApiClientError("NETWORK_ERROR", <<"Network error: ">> \o error.message, 0)
         ELSE ApiClientError("UNKNOWN_ERROR", <<"Unknown error occurred">>, 0)

\* the error thrown inside the try block for a non-success response whose
\* body read settled as b
ErrorOfResponse(r, b) ==
    IF ~b.json
    THEN ApiClientError("UNKNOWN_ERROR",
                        <<"HTTP ", DecimalOf(r.status), ": ", r.statusText>>, r.status)
    ELSE IF b.isNull
         THEN JsError("TypeError", <<"Cannot read properties of null">>)
         ELSE ApiClientError(b.code, b.message, r.status)

\* time may pass only up to the deadline of a pending timer
CanAdvance(d) ==
    /\ timeoutId # NoTimer => now + d <= timeoutId
    /\ pollTimer # NoTimer => now + d <= pollTimer

\* entry of request() up to the first await (lines 463-478)
EnterRequest(t) ==
    /\ rpc' = "fetch"
    /\ rStart' = t
    /\ timeoutId' = t + API_TIMEOUT
    /\ aborted' = FALSE
    /\ timerFired' = FALSE
    /\ response' = NoResponse
    /\ body' = NoBody
    /\ result' = NoResult

\* prepareUpload, startPipeline or getPipelineStatus called directly
Call(o) ==
    /\ op = "none"
    /\ op' = o
    /\ EnterRequest(now)
    /\ UNCHANGED <<now, pollVars>>
    /\ UNCHANGED <<up, sync>>

PrepareUpload == Call("prepareUpload")

StartPipeline == Call("startPipeline")

GetPipelineStatus == Call("getPipelineStatus")

\* fetch resolves with a response: clearTimeout, then the body is awaited
FetchResolves ==
    /\ rpc = "fetch"
    /\ ~aborted
    /\ CanAdvance(FastLatency)
    /\ \E r \in ResponsesOf(op) :
          /\ response' = r
          /\ rpc' = IF Ok(r) THEN "okbody" ELSE "errbody"
    /\ now' = now + FastLatency
    /\ timeoutId' = ClearTimeout(timeoutId)
    /\ UNCHANGED <<op, rStart, aborted, timerFired, body, result, pollVars>>
    /\ UNCHANGED <<up, sync>>

\* fetch rejects with a transport error before any response
FetchFails ==
    /\ rpc = "fetch"
    /\ ~aborted
    /\ CanAdvance(FastLatency)
    /\ now' = now + FastLatency
    /\ timeoutId' = ClearTimeout(timeoutId)
    /\ result' = Thrown(Normalize(JsError("TypeError", <<"Failed to fetch">>)))
    /\ rpc' = "thrown"
    /\ UNCHANGED <<op, rStart, aborted, timerFired, response, body, pollVars>>
    /\ UNCHANGED <<up, sync>>

\* the callback of setTimeout(() => controller.abort(), API_TIMEOUT) runs
AbortTimerFires ==
    /\ timeoutId # NoTimer
    /\ cnt.aborts < MaxAborts
    /\ now' = timeoutId
    /\ timeoutId' = NoTimer
    /\ timerFired' = TRUE
    /\ aborted' = TRUE
    /\ cnt' = [cnt EXCEPT !.aborts = @ + 1]
    /\ UNCHANGED <<op, rpc, rStart, response, body, result, ppc, startTime,
                   consecutiveErrors, pollTimer, pollDelay, pollPromise,
                   lastStatus, lastError, lastCycle>>
    /\ UNCHANGED <<up, sync>>

\* the aborted fetch rejects with an AbortError
FetchAborted ==
    /\ rpc = "fetch"
    /\ aborted
    /\ timeoutId' = ClearTimeout(timeoutId)
    /\ result' = Thrown(Normalize(JsError("AbortError", <<"The operation was aborted">>)))
    /\ rpc' = "thrown"
    /\ UNCHANGED <<op, now, rStart, aborted, timerFired, response, body, pollVars>>
    /\ UNCHANGED <<up, sync>>

\* the body of a received response is still outstanding
BodyStalls ==
    /\ rpc \in {"okbody", "errbody"}
    /\ cnt.stalls < MaxStalls
    /\ CanAdvance(StallStep)
    /\ now' = now + StallStep
    /\ cnt' = [cnt EXCEPT !.stalls = @ + 1]
    /\ UNCHANGED <<op, reqVars, ppc, startTime, consecutiveErrors, pollTimer,
                   pollDelay, pollPromise, lastStatus, lastError, lastCycle>>
    /\ UNCHANGED <<up, sync>>

\* response.json() of a non-success response settles (lines 481-492, 495-510)
ErrorBodySettles ==
    /\ rpc = "errbody"
    /\ \E b \in ErrorBodiesOf(op) :
          /\ body' = b
          /\ result' = Thrown(Normalize(ErrorOfResponse(response, b)))
    /\ timeoutId' = ClearTimeout(timeoutId)
    /\ rpc' = "thrown"
    /\ UNCHANGED <<op, now, rStart, aborted, timerFired, response, pollVars>>
    /\ UNCHANGED <<up, sync>>

\* response.json() of a success response resolves: request returns the value
OkBodyParsed ==
    /\ rpc = "okbody"
    /\ cnt.ok < MaxOk
    /\ \E v \in OkValues(op) : result' = Returned(v)
    /\ rpc' = "returned"
    /\ UNCHANGED <<op, now, rStart, timeoutId, aborted, timerFired, response, body, pollVars>>
    /\ UNCHANGED <<up, sync>>

\* response.json() of a success response rejects (body is not JSON)
OkBodyMalformed ==
    /\ rpc = "okbody"
    /\ timeoutId' = ClearTimeout(timeoutId)
    /\ result' = Thrown(Normalize(JsError("SyntaxError", <<"Unexpected token">>)))
    /\ rpc' = "thrown"
    /\ UNCHANGED <<op, now, rStart, aborted, timerFired, response, body, pollVars>>
    /\ UNCHANGED <<up, sync>>
-----------------------------------------------------------------------------
(* ApiClient.pollPipelineStatus *)

TimeoutMessage == <<"Pipeline timeout - maximum duration exceeded (24 hours)">>

\* which of the caller's callbacks raises an exception when invoked in a cycle
ThrowChoices == {"none", "onUpdate", "onComplete", "onError"}

\* the retry delay without backoff
ErrorIntervalFlat(n) == pollInterval

\* Math.min(pollInterval * consecutiveErrors, 30000)
ErrorInterval(n) == Min(pollInterval * n, errorIntervalCap)

\* head of poll() without the return after onError: the timeout is reported
\* and the status is requested all the same
PollEntryFallThrough(elapsed) ==
    IF elapsed > maxDuration
    THEN [report |-> TRUE, call |-> TRUE]
    ELSE [report |-> FALSE, call |-> TRUE]

\* poll() without the elapsed-time test
PollEntryNoCeiling(elapsed) == [report |-> FALSE, call |-> TRUE]

\* head of poll() (lines 585-588): the elapsed-time test decides whether the
\* timeout is reported through onError and whether the status is requested
PollEntry(elapsed) ==
    IF elapsed > maxDuration
    THEN [report |-> TRUE, call |-> FALSE]
    ELSE [report |-> FALSE, call |-> TRUE]

\* the catch block of poll() (lines 607-622), entered with error e after the
\* callbacks counted in done have been invoked in the try block
Catch(ce, e, done) ==
    LET n == ce + 1 IN
    IF n >= maxConsecutiveErrors
    THEN [done EXCEPT !.ce = n, !.error = 1, !.next = "stop",
                      !.seq = @ \o <<"onError">>,
                      !.message = IF e.class = "ApiClientError"
                                  THEN <<"Too many consecutive errors: ">> \o e.message
                                  ELSE <<"Too many consecutive errors while checking pipeline status">>]
    ELSE [done EXCEPT !.ce = n, !.next = "sched", !.delay = ErrorInterval(n)]

\* a successful status handled without telling the caller
OnSuccessSilent(r) == [r EXCEPT !.ce = 0]

\* the first two statements after the await (lines 592-593): the counter is
\* reset and onUpdate is invoked
OnSuccess(r) == [r EXCEPT !.ce = 0, !.update = 1, !.seq = <<"onUpdate">>]

\* one continuation of poll() after getPipelineStatus settled with res
\* (lines 591-622); thr names the callback that raises when invoked
Handle(res, ce, thr) ==
    LET none == [ce |-> ce, update |-> 0, complete |-> 0, error |-> 0, threw |-> 0,
                 message |-> <<>>, next |-> "stop", delay |-> 0, seq |-> <<>>]
        cbError == JsError("Error", <<"callback failed">>)
    IN
    IF res.kind = "error"
    THEN Catch(ce, res.error, none)
    ELSE
      LET s == res.value
          upd == OnSuccess(none)
          cmp == [upd EXCEPT !.complete = 1, !.seq = @ \o <<"onComplete">>]
      IN
      IF thr = "onUpdate"
      THEN Catch(0, cbError, [upd EXCEPT !.threw = 1])
      ELSE IF s.status = "completed"
      THEN IF thr = "onComplete"
           THEN Catch(0, cbError, [cmp EXCEPT !.threw = 1])
           ELSE [cmp EXCEPT !.next = "stop"]
      ELSE IF s.status = "failed" \/ s.error_message # ""
      THEN LET msg == IF s.error_message # "" THEN <<s.error_message>>
                      ELSE <<"Pipeline failed">>
               err == [upd EXCEPT !.error = 1, !.message = msg,
                                  !.seq = @ \o <<"onError">>]
           IN IF thr = "onError"
              THEN Catch(0, cbError, [err EXCEPT !.threw = 1])
              ELSE [err EXCEPT !.next = "stop"]
      ELSE [upd EXCEPT !.next = "sched", !.delay = pollInterval]

\* the promise tied to the end of the loop instead of the first cycle
SettleWhenStopped(p, h) == IF p = "pending" /\ h.next = "stop" THEN "resolved" ELSE p

\* await poll() (line 625): the promise of pollPipelineStatus resolves when
\* the first call of poll() has run to its end; h is what that cycle did
SettleAfterCycle(p, h) == IF p = "pending" THEN "resolved" ELSE p

\* a repeating timer (setInterval): still pending after its callback ran
AfterFireRepeating(id) == id + pollInterval

\* setTimeout is one-shot (lines 605, 621): nothing is pending after it fired
AfterFire(id) == NoTimer

\* one entry of poll() at time t, up to its first await or its return
PollCycle(t) ==
    LET entry == PollEntry(t - startTime')
    IN
    /\ entry.call => cnt.calls < MaxCalls
    /\ cnt' = [cnt EXCEPT !.calls = @ + (IF entry.call THEN 1 ELSE 0),
                          !.error = @ + (IF entry.report THEN 1 ELSE 0),
                          !.timeouts = @ + (IF entry.report THEN 1 ELSE 0)]
    /\ lastError' = IF entry.report THEN TimeoutMessage ELSE lastError
    /\ lastCycle' = IF entry.report THEN <<"onError">> ELSE <<>>
    /\ IF entry.call
       THEN /\ EnterRequest(t)
            /\ ppc' = "awaiting"
       ELSE /\ UNCHANGED reqVars
            /\ ppc' = "stopped"

\* pollPipelineStatus is called: locals are set and poll() runs its first cycle
PollPipelineStatus ==
    /\ op = "none"
    /\ op' = "pollPipelineStatus"
    /\ startTime' = now
    /\ consecutiveErrors' = 0
    /\ pollPromise' = "pending"
    /\ PollCycle(now)
    /\ UNCHANGED <<now, pollTimer, pollDelay, lastStatus>>
    /\ UNCHANGED <<up, sync>>

\* the callback of setTimeout(poll, ..) runs: the next cycle of poll()
PollTimerFires ==
    /\ ppc = "scheduled"
    /\ pollTimer # NoTimer
    /\ now' = pollTimer
    /\ pollTimer' = AfterFire(pollTimer)
    /\ UNCHANGED startTime
    /\ pollDelay' = 0
    /\ PollCycle(pollTimer)
    /\ UNCHANGED <<op, consecutiveErrors, pollPromise, lastStatus>>
    /\ UNCHANGED <<up, sync>>

\* getPipelineStatus has settled and poll() continues after its await
PollResumes ==
    /\ ppc = "awaiting"
    /\ rpc \in {"returned", "thrown"}
    /\ \E thr \in ThrowChoices :
         LET h == Handle(result, consecutiveErrors, thr) IN
         /\ thr # "none" => h.threw = 1 /\ cnt.throws < MaxThrows
         /\ consecutiveErrors' = h.ce
         /\ cnt' = [cnt EXCEPT !.ok = @ + (IF result.kind = "value" THEN 1 ELSE 0),
                               !.fail = @ + (IF result.kind = "error" THEN 1 ELSE 0),
                               !.nonTerm = @ + (IF result.kind = "value" /\ NonTerminal(result.value)
                                                THEN 1 ELSE 0),
                               !.update = @ + h.update,
                               !.complete = @ + h.complete,
                               !.error = @ + h.error,
                               !.throws = @ + h.threw,
                               !.run = IF result.kind = "error" THEN @ + 1 ELSE 0]
         /\ lastCycle' = h.seq
         /\ pollPromise' = SettleAfterCycle(pollPromise, h)
         /\ lastError' = IF h.error = 1 THEN h.message ELSE lastError
         /\ ppc' = IF h.next = "sched" THEN "scheduled" ELSE "stopped"
         /\ pollTimer' = IF h.next = "sched" THEN now + h.delay ELSE NoTimer
         /\ pollDelay' = IF h.next = "sched" THEN h.delay ELSE 0
    /\ lastStatus' = IF result.kind = "value" THEN result.value ELSE lastStatus
    /\ rpc' = "idle"
    /\ result' = NoResult
    /\ response' = NoResponse
    /\ body' = NoBody
    /\ rStart' = 0
    /\ aborted' = FALSE
    /\ timerFired' = FALSE
    /\ UNCHANGED <<op, now, startTime, timeoutId>>
    /\ UNCHANGED <<up, sync>>

-----------------------------------------------------------------------------
(* ApiClient.uploadFile *)

\* pc: idle, sent (xhr.send was called), done (the promise is settled).
\* total/loaded: the members of the progress events; onProgress: a callback
\* was passed; last/prev: the last two values passed to it (-1: none);
\* end: the event that ended the transfer; promise/error: the promise.
NoUpload ==
    [pc |-> "idle", total |-> 0, loaded |-> 0, onProgress |-> FALSE,
     last |-> -1, prev |-> -1, reports |-> 0, events |-> 0, sent |-> 0,
     end |-> "none", status |-> 0, promise |-> "none", error |-> NoError,
     settles |-> 0]

\* file.size of the uploaded file; an empty body has no computable length
Totals == {0, 3, 8}

\* what the storage server may answer to the PUT
UploadResponses ==
    { [status |-> 200, statusText |-> "OK"],
      [status |-> 204, statusText |-> "No Content"],
      [status |-> 300, statusText |-> "Multiple Choices"],
      [status |-> 403, statusText |-> "Forbidden"],
      [status |-> 500, statusText |-> ""] }

\* Math.round of the non-negative quotient num / den: halves round up
Round(num, den) == (2 * num + den) \div (2 * den)

\* the share still to be sent instead of the share sent
ProgressRemaining(loaded, total) == Round((total - loaded) * 100, total)

\* Math.round((event.loaded / event.total) * 100) (line 531)
ProgressPercent(loaded, total) == Round(loaded * 100, total)

\* every completed transfer taken for a success
OnLoadAnyStatus(r) == [promise |-> "resolved", error |-> NoError]

\* xhr.onload (lines 536-542): how the promise settles on the load event
OnLoad(r) ==
    IF r.status >= 200 /\ r.status < 300
    THEN [promise |-> "resolved", error |-> NoError]
    ELSE [promise |-> "rejected",
          error |-> ApiClientError("UPLOAD_FAILED",
                                   <<"Upload failed: ", r.statusText>>, Undefined)]

\* resolve()/reject(e) of the promise: only the first call has an effect
Settle(u, end, status, out) ==
    IF u.promise = "pending"
    THEN [u EXCEPT !.pc = "done", !.end = end, !.status = status,
                   !.promise = out.promise, !.error = out.error,
                   !.settles = @ + 1]
    ELSE [u EXCEPT !.end = end, !.status = status]

\* uploadFile is called: the executor wires the handlers, opens the request
\* and sends the file (lines 526-555)
UploadFile ==
    /\ op = "none"
    /\ op' = "uploadFile"
    /\ \E total \in Totals, cb \in BOOLEAN :
         up' = [NoUpload EXCEPT !.pc = "sent", !.total = total, !.onProgress = cb,
                                !.sent = now, !.promise = "pending"]
    /\ UNCHANGED <<now, reqVars, pollVars, sync>>

\* xhr.open rejects the URL (line 552): the executor throws and the promise
\* is rejected with that exception; nothing is sent
UploadOpenThrows ==
    /\ op = "none"
    /\ op' = "uploadFile"
    /\ up' = Settle([NoUpload EXCEPT !.promise = "pending"], "none", 0,
                    [promise |-> "rejected",
                     error |-> JsError("SyntaxError", <<"Invalid URL">>)])
    /\ UNCHANGED <<now, reqVars, pollVars, sync>>

\* a progress event of xhr.upload (lines 529-534); event.lengthComputable
\* holds when the body has a length
UploadProgress ==
    /\ up.pc = "sent"
    /\ up.events < MaxProgress
    /\ \E loaded \in up.loaded .. up.total :
         LET lengthComputable == up.total # 0 IN
         up' = IF lengthComputable /\ up.onProgress
               THEN [up EXCEPT !.loaded = loaded, !.events = @ + 1,
                               !.prev = up.last,
                               !.last = ProgressPercent(loaded, up.total),
                               !.reports = @ + 1]
               ELSE [up EXCEPT !.loaded = loaded, !.events = @ + 1]
    /\ UNCHANGED <<op, now, reqVars, pollVars, sync>>

\* the load event: the transfer completed with a response
UploadLoads ==
    /\ up.pc = "sent"
    /\ \E r \in UploadResponses :
         up' = Settle(up, "load", r.status, OnLoad(r))
    /\ now' = now + FastLatency
    /\ UNCHANGED <<op, reqVars, pollVars, sync>>

\* the error event (lines 544-546): the transfer failed at transport level
UploadErrors ==
    /\ up.pc = "sent"
    /\ up' = Settle(up, "error", 0,
                    [promise |-> "rejected",
                     error |-> ApiClientError("UPLOAD_ERROR",
                                              <<"Upload network error">>, Undefined)])
    /\ now' = now + FastLatency
    /\ UNCHANGED <<op, reqVars, pollVars, sync>>

\* the timeout event (lines 548-550), xhr.timeout after send (line 554)
UploadTimesOut ==
    /\ up.pc = "sent"
    /\ up' = Settle(up, "timeout", 0,
                    [promise |-> "rejected",
                     error |-> ApiClientError("UPLOAD_TIMEOUT",
                                              <<"Upload timeout">>, Undefined)])
    /\ now' = up.sent + uploadTimeout
    /\ UNCHANGED <<op, reqVars, pollVars, sync>>

-----------------------------------------------------------------------------
(* Landing page: handleSyncClick *)

\* showComingSoon: the flag of line 8; timers: the deadlines of the pending
\* setTimeout callbacks, oldest first; clicks, lastClick, shownSince: how many
\* clicks were handled, when the last one was, and when the flag last went
\* from false to true.
NoSync ==
    [showComingSoon |-> FALSE, timers |-> <<>>, clicks |-> 0,
     lastClick |-> 0, shownSince |-> 0]

\* time between one event of the page and the next click
ClickGaps == {1000, 2000, 6000}

\* a click that restarts the one timer of the notification
TimersAfterClickDebounced(timers, t) == <<t + comingSoonDelay>>

\* setTimeout(.., 5000) of a click at time t (lines 54-56): one more timer;
\* nothing is cleared
TimersAfterClick(timers, t) == Append(timers, t + comingSoonDelay)

\* handleSyncClick (lines 52-57), run by a click or Enter on the Sync card
HandleSyncClick ==
    /\ op \in {"none", "landing"}
    /\ op' = "landing"
    /\ sync.clicks < MaxClicks
    /\ \E gap \in ClickGaps :
         LET t == now + gap IN
         /\ sync.timers # <<>> => t <= Head(sync.timers)
         /\ now' = t
         /\ sync' = [sync EXCEPT !.showComingSoon = TRUE,
                                 !.timers = TimersAfterClick(@, t),
                                 !.clicks = @ + 1,
                                 !.lastClick = t,
                                 !.shownSince = IF sync.showComingSoon THEN @ ELSE t]
    /\ UNCHANGED <<reqVars, pollVars, up>>

\* the callback of the oldest pending timer runs (line 55)
SyncTimerFires ==
    /\ op = "landing"
    /\ sync.timers # <<>>
    /\ now' = Head(sync.timers)
    /\ sync' = [sync EXCEPT !.showComingSoon = FALSE, !.timers = Tail(@)]
    /\ UNCHANGED <<op, reqVars, pollVars, up>>

-----------------------------------------------------------------------------

Init ==
    /\ op = "none"
    /\ now = 0
    /\ rpc = "idle"
    /\ rStart = 0
    /\ timeoutId = NoTimer
    /\ aborted = FALSE
    /\ timerFired = FALSE
    /\ response = NoResponse
    /\ body = NoBody
    /\ result = NoResult
    /\ ppc = "idle"
    /\ startTime = 0
    /\ consecutiveErrors = 0
    /\ pollTimer = NoTimer
    /\ pollDelay = 0
    /\ pollPromise = "none"
    /\ lastStatus = NoStatus
    /\ lastError = <<>>
    /\ cnt = [calls |-> 0, ok |-> 0, fail |-> 0, nonTerm |-> 0, update |-> 0, complete |-> 0,
              error |-> 0, timeouts |-> 0, throws |-> 0, stalls |-> 0, aborts |-> 0,
              run |-> 0]
    /\ lastCycle = <<>>
    /\ up = NoUpload
    /\ sync = NoSync

Next ==
    \/ PrepareUpload
    \/ StartPipeline
    \/ GetPipelineStatus
    \/ FetchResolves
    \/ FetchFails
    \/ AbortTimerFires
    \/ FetchAborted
    \/ BodyStalls
    \/ ErrorBodySettles
    \/ OkBodyParsed
    \/ OkBodyMalformed
    \/ PollPipelineStatus
    \/ PollTimerFires
    \/ PollResumes
    \/ UploadFile
    \/ UploadOpenThrows
    \/ UploadProgress
    \/ UploadLoads
    \/ UploadErrors
    \/ UploadTimesOut
    \/ HandleSyncClick
    \/ SyncTimerFires

Spec == Init /\ [][Next]_vars

-----------------------------------------------------------------------------
(* A poll that has been running for almost 24 hours *)

\* The loop LateStart ms after pollPipelineStatus was called, waiting for its
\* next cycle: either the last status fetched was not terminal (n = 0), or the
\* last n status calls failed.  The counters count from this state on.
LiveInit ==
    /\ op = "pollPipelineStatus"
    /\ now = LateStart
    /\ rpc = "idle"
    /\ rStart = 0
    /\ timeoutId = NoTimer
    /\ aborted = FALSE
    /\ timerFired = FALSE
    /\ response = NoResponse
    /\ body = NoBody
    /\ result = NoResult
    /\ ppc = "scheduled"
    /\ startTime = 0
    /\ \E n \in 0 .. maxConsecutiveErrors - 1 :
         /\ consecutiveErrors = n
         /\ pollDelay = IF n = 0 THEN pollInterval ELSE ErrorInterval(n)
         /\ lastStatus = IF n = 0 THEN [status |-> "pending", error_message |-> ""]
                         ELSE NoStatus
         /\ lastCycle = IF n = 0 THEN <<"onUpdate">> ELSE <<>>
    /\ pollTimer = now + pollDelay
    /\ pollPromise = "resolved"
    /\ lastError = <<>>
    /\ cnt = [calls |-> 0, ok |-> 0, fail |-> 0, nonTerm |-> 0, update |-> 0, complete |-> 0,
              error |-> 0, timeouts |-> 0, throws |-> 0, stalls |-> 0, aborts |-> 0,
              run |-> 0]
    /\ up = NoUpload
    /\ sync = NoSync

\* the steps of a running poll
LiveNext ==
    \/ FetchResolves
    \/ FetchFails
    \/ AbortTimerFires
    \/ FetchAborted
    \/ BodyStalls
    \/ ErrorBodySettles
    \/ OkBodyParsed
    \/ OkBodyMalformed
    \/ PollTimerFires
    \/ PollResumes

\* Scheduled timers fire, a continuation whose await has settled runs, and
\* every getPipelineStatus call returns or fails: its fetch settles and the
\* body of its response settles.
LiveFairness ==
    /\ WF_vars(PollTimerFires)
    /\ WF_vars(PollResumes)
    /\ WF_vars(FetchResolves \/ FetchFails \/ FetchAborted)
    /\ WF_vars(ErrorBodySettles \/ OkBodyParsed \/ OkBodyMalformed)

LiveSpec == LiveInit /\ [][LiveNext]_vars /\ LiveFairness

-----------------------------------------------------------------------------
(* Properties *)

\* the behaviour is one call of pollPipelineStatus
Poll == op = "pollPipelineStatus"

\* C1: for one call of pollPipelineStatus at most one terminal callback
\* (onComplete or onError) is invoked in total, and once it has been invoked
\* no further getPipelineStatus call is made, no timer is scheduled and no
\* callback of any kind is invoked.
C1_TerminalOnceThenSilent ==
    /\ [](cnt.complete + cnt.error <= 1)
    /\ [][cnt.complete + cnt.error >= 1 =>
            /\ cnt'.calls = cnt.calls
            /\ cnt'.update = cnt.update
            /\ cnt'.complete = cnt.complete
            /\ cnt'.error = cnt.error
            /\ pollTimer' = NoTimer]_vars

\* C2: when every status call succeeds, returning k non-terminal statuses and
\* then a status 'completed', then once that response is handled onUpdate was
\* invoked k+1 times, onComplete once, onError never, and nothing is
\* outstanding: no further status call, no poll timer.
C2_CompletedAfterK ==
    ( /\ Poll
      /\ ppc \in {"scheduled", "stopped"}
      /\ cnt.fail = 0
      /\ cnt.timeouts = 0
      /\ cnt.ok = cnt.calls
      /\ lastStatus.status = "completed"
      /\ cnt.nonTerm = cnt.ok - 1 )
    => ( /\ cnt.update = cnt.nonTerm + 1
         /\ cnt.complete = 1
         /\ cnt.error = 0
         /\ ppc = "stopped"
         /\ pollTimer = NoTimer )

\* C3: once a fetched status that is 'failed' or carries a non-empty error
\* message (whatever its status value) has been handled, onError was invoked
\* exactly once, onComplete was not invoked, and polling has stopped.
C3_FailedStatusStops ==
    ( /\ Poll
      /\ ppc \in {"scheduled", "stopped"}
      /\ cnt.ok = cnt.calls - cnt.fail
      /\ cnt.timeouts = 0
      /\ (lastStatus.status = "failed" \/ lastStatus.error_message # "") )
    => ( /\ cnt.error = 1
         /\ cnt.complete = 0
         /\ ppc = "stopped"
         /\ pollTimer = NoTimer )

\* C4: when the status calls fail from the start, the poll scheduled after the
\* n-th failure (1 <= n <= 9) has delay min(3000 * n, 30000) ms and no callback
\* has been invoked; after the 10th failure exactly 10 calls were made, onError
\* was invoked exactly once with the exhausted-retries message, and no poll is
\* scheduled.
C4_TenFailures ==
    ( Poll /\ cnt.ok = 0 /\ cnt.timeouts = 0 /\ ppc \in {"scheduled", "stopped"} )
    => ( /\ cnt.fail = cnt.calls
         /\ cnt.calls \in 1..10
         /\ cnt.update = 0 /\ cnt.complete = 0
         /\ cnt.fail <= 9 =>
              /\ ppc = "scheduled"
              /\ pollTimer = now + pollDelay
              /\ pollDelay = Min(3000 * cnt.fail, 30000)
              /\ cnt.error = 0
         /\ cnt.fail = 10 =>
              /\ ppc = "stopped"
              /\ pollTimer = NoTimer
              /\ cnt.error = 1
              /\ Head(lastError) = "Too many consecutive errors: " )

C4_Witness ==
    Poll /\ cnt.ok = 0 /\ cnt.fail = 10 /\ ppc = "stopped" /\ cnt.error = 1

\* C5: a poll cycle that begins more than 24 hours after the poll started
\* invokes onError with the timeout message and makes no status call; the
\* message is reported once (and it is the only terminal callback when no
\* terminal status was fetched before); afterwards there is no onComplete, no
\* onUpdate, no onError, no status call and no scheduled poll.
C5_TimeoutCycle ==
    /\ [](cnt.timeouts >= 1 =>
            /\ cnt.timeouts = 1
            /\ lastError = TimeoutMessage
            /\ now - startTime > 86400000
            /\ ppc = "stopped" /\ pollTimer = NoTimer /\ rpc = "idle"
            /\ (cnt.ok = cnt.nonTerm => cnt.error = 1 /\ cnt.complete = 0))
    /\ [][ /\ (ppc = "scheduled" /\ ppc' # "scheduled" /\ now' - startTime > 86400000)
              => /\ cnt'.timeouts = 1
                 /\ cnt'.error = cnt.error + 1
                 /\ cnt'.calls = cnt.calls
           /\ cnt.timeouts >= 1
              => /\ cnt'.calls = cnt.calls
                 /\ cnt'.update = cnt.update
                 /\ cnt'.complete = cnt.complete
                 /\ cnt'.error = cnt.error
                 /\ pollTimer' = NoTimer ]_vars

C5_Witness ==
    Poll /\ cnt.timeouts = 1 /\ cnt.ok = cnt.nonTerm /\ cnt.ok >= 1 /\ ppc = "stopped"

\* C6: every failure of a call made through request reaches the caller as an
\* ApiClientError that carries a code and a message.
C6_NormalizedFailure ==
    rpc = "thrown" =>
        /\ result.error.class = "ApiClientError"
        /\ result.error.code # Undefined
        /\ result.error.message # <<>>

\* C7: a non-success response whose body is not a well-formed {code, message}
\* object makes request fail with UNKNOWN_ERROR and a message containing the
\* numeric HTTP status.
C7_MalformedBodyUnknown ==
    (rpc = "thrown" /\ response.status # 0 /\ ~Ok(response) /\ ~WellFormed(body))
    => /\ result.error.code = "UNKNOWN_ERROR"
       /\ \E i \in DOMAIN result.error.message :
              result.error.message[i] = DecimalOf(response.status)

\* C8: a non-success response with a well-formed {code, message} body makes
\* request fail with an ApiClientError carrying exactly that code, that
\* message and the HTTP status.
C8_WellFormedPassedThrough ==
    (rpc = "thrown" /\ response.status # 0 /\ ~Ok(response) /\ WellFormed(body))
    => result.error = ApiClientError(body.code, body.message, response.status)

C8_Witness ==
    /\ rpc = "thrown" /\ response.status = 404 /\ WellFormed(body)
    /\ result.error.code = "PIPELINE_NOT_FOUND"

\* C9: a call through request that has not produced its result within the
\* 30-second budget, whether headers or body are outstanding, does not stay
\* pending and ends with code TIMEOUT.
C9_BudgetEndsInTimeout ==
    /\ rpc \in {"fetch", "okbody", "errbody"} => now - rStart <= 30000
    /\ (rpc \in {"returned", "thrown"} /\ now - rStart >= 30000)
       => (rpc = "thrown" /\ result.error.code = "TIMEOUT")

\* C10: whenever request has returned or thrown its timeout timer is cleared;
\* when the response arrives first the timer is cleared without having fired;
\* when the timer fires first the fetch is aborted and the call can only end
\* with TIMEOUT.
C10_RaceLoserCancelled ==
    /\ rpc \in {"idle", "returned", "thrown"} => timeoutId = NoTimer
    /\ response.status # 0 => (timeoutId = NoTimer /\ ~timerFired /\ ~aborted)
    /\ timerFired =>
          /\ aborted
          /\ rpc \in {"fetch", "thrown"}
          /\ rpc = "thrown" => result.error.code = "TIMEOUT"

C10_Witness ==
    rpc = "thrown" /\ timerFired /\ aborted /\ timeoutId = NoTimer


\* C11: the values uploadFile passes to onProgress are integers between 0
\* and 100, and each is at least the value passed before it.
C11_ProgressMonotone ==
    up.reports > 0 =>
        /\ up.last \in 0 .. 100
        /\ up.reports > 1 => up.prev \in 0 .. 100 /\ up.prev <= up.last

\* three progress events of an 8-byte file were reported as 13, 63 and 100
C11_Witness ==
    /\ up.reports = 3
    /\ up.total = 8
    /\ up.prev = 63
    /\ up.last = 100

\* C12: the promise of uploadFile is settled at most once; once the transfer
\* has ended it is settled, resolved with no value exactly when the transfer
\* completed with a status in 200..299, rejected with UPLOAD_FAILED for any other
\* status, with UPLOAD_ERROR on the error event and UPLOAD_TIMEOUT on timeout.
C12_UploadOutcome ==
    /\ up.settles <= 1
    /\ up.end # "none" => up.settles = 1 /\ up.promise \in {"resolved", "rejected"}
    /\ up.promise = "resolved"
         <=> (up.end = "load" /\ up.status >= 200 /\ up.status <= 299)
    /\ up.promise = "resolved" => up.error = NoError
    /\ up.end = "load" /\ ~(up.status >= 200 /\ up.status <= 299)
         => up.promise = "rejected" /\ up.error.class = "ApiClientError"
            /\ up.error.code = "UPLOAD_FAILED"
    /\ up.end = "error"
         => up.promise = "rejected" /\ up.error.class = "ApiClientError"
            /\ up.error.code = "UPLOAD_ERROR"
    /\ up.end = "timeout"
         => up.promise = "rejected" /\ up.error.class = "ApiClientError"
            /\ up.error.code = "UPLOAD_TIMEOUT"

\* a transfer that completed with status 300 was rejected as UPLOAD_FAILED
C12_Witness ==
    /\ up.end = "load"
    /\ up.status = 300
    /\ up.promise = "rejected"
    /\ up.error.code = "UPLOAD_FAILED"
    /\ up.settles = 1

\* the loop was abandoned for errors: onError got the exhausted-retries message
Exhausted ==
    /\ lastError # <<>>
    /\ Head(lastError) \in {"Too many consecutive errors: ",
                            "Too many consecutive errors while checking pipeline status"}

\* C13: the consecutive-error counter is incremented only by a failed status
\* call, by one per failed call; a cycle in which a callback raised an
\* exception does not increment it and schedules no further poll.
C13_OnlyFailedCallsCounted ==
    [][ /\ consecutiveErrors' > consecutiveErrors
             => /\ consecutiveErrors' = consecutiveErrors + 1
                /\ cnt'.fail = cnt.fail + 1
        /\ cnt'.throws > cnt.throws
             => /\ consecutiveErrors' <= consecutiveErrors
                /\ ppc' # "scheduled"
                /\ pollTimer' = NoTimer ]_vars

\* C14: after a successful status fetch has been handled the counter is zero
\* and the next poll, if one is scheduled, is 3000 ms away; the loop is
\* abandoned for errors only after 10 failed calls with no successful one
\* between them.
C14_SuccessResets ==
    /\ [][ cnt'.ok > cnt.ok
             => /\ consecutiveErrors' = 0
                /\ ppc' = "scheduled" => pollDelay' = 3000 ]_vars
    /\ [](Poll /\ Exhausted => cnt.run >= 10)

\* the part of C14 about giving up, on its own
C14_GivesUpAfterTenInARow == Poll /\ Exhausted => cnt.run >= 10

\* C15: onUpdate has been invoked once per successfully fetched status; in the
\* cycle that handles a fetched status it is the first callback, followed by
\* at most one of onComplete and onError, also when the status is terminal; a
\* cycle that handles a failed fetch and the 24-hour timeout cycle do not
\* invoke it.
C15_UpdatePerFetch ==
    /\ [](Poll => cnt.update = cnt.ok)
    /\ [][ /\ cnt'.ok > cnt.ok
                => /\ cnt'.update = cnt.update + 1
                   /\ lastCycle' \in { <<"onUpdate">>,
                                       <<"onUpdate", "onComplete">>,
                                       <<"onUpdate", "onError">> }
                   /\ lastStatus'.status = "completed" /\ cnt'.throws = cnt.throws
                        => lastCycle' = <<"onUpdate", "onComplete">>
           /\ cnt'.fail > cnt.fail
                => /\ cnt'.update = cnt.update
                   /\ lastCycle' \in { <<>>, <<"onError">> }
           /\ cnt'.timeouts > cnt.timeouts
                => /\ cnt'.update = cnt.update
                   /\ lastCycle' = <<"onError">> ]_vars

\* the second fetch returned a terminal status: onUpdate ran for both fetches
\* and ahead of onComplete in the last cycle
C15_Witness ==
    /\ Poll
    /\ cnt.ok = 2
    /\ cnt.update = 2
    /\ cnt.nonTerm = 1
    /\ lastCycle = <<"onUpdate", "onComplete">>

\* C17: during a poll at most one activity of the loop is outstanding: while a
\* status request is in flight (or its continuation is due) no poll timer is
\* pending, a timer is pending exactly while the loop waits for its next
\* cycle, and a stopped loop has neither; a request is only started and a
\* timer only set when none is outstanding, so a cycle has one successor at most.
C17_OneActivity ==
    /\ [](Poll =>
            /\ ~(rpc # "idle" /\ pollTimer # NoTimer)
            /\ ppc = "awaiting" <=> rpc # "idle"
            /\ ppc = "scheduled" <=> pollTimer # NoTimer
            /\ ppc = "stopped" => rpc = "idle" /\ pollTimer = NoTimer)
    /\ [][ op' = "pollPipelineStatus" =>
            /\ cnt'.calls > cnt.calls
                 => /\ cnt'.calls = cnt.calls + 1
                    /\ rpc = "idle"
                    /\ pollTimer' = NoTimer
            /\ (pollTimer' # NoTimer /\ pollTimer' # pollTimer)
                 => /\ pollTimer = NoTimer
                    /\ rpc' = "idle" ]_vars

\* the second status request is in flight after the first poll timer fired
C17_Witness ==
    /\ Poll
    /\ cnt.calls = 2
    /\ rpc = "fetch"
    /\ ppc = "awaiting"
    /\ pollTimer = NoTimer

\* C18: the 24-hour ceiling is tested only when a cycle starts.  A step taken
\* while a status request is outstanding never reports the timeout, whatever
\* the elapsed time; a status that arrives after the ceiling is handled as any
\* other (onUpdate first, then onComplete or onError from the status, or the
\* next poll after 3000 ms); and the timeout is only reported by a cycle that
\* starts from the timer, past the ceiling, and makes no status call.
C18_CeilingAtCycleStart ==
    [][ /\ ppc = "awaiting" => cnt'.timeouts = cnt.timeouts
        /\ ( /\ ppc = "awaiting" /\ ppc' # "awaiting"
             /\ now - startTime > maxDuration
             /\ result.kind = "value" )
             => /\ lastError' # TimeoutMessage
                /\ lastCycle' # <<>> /\ Head(lastCycle') = "onUpdate"
                /\ cnt'.throws = cnt.throws =>
                     IF result.value.status = "completed"
                     THEN lastCycle' = <<"onUpdate", "onComplete">> /\ ppc' = "stopped"
                     ELSE IF result.value.status = "failed" \/ result.value.error_message # ""
                     THEN lastCycle' = <<"onUpdate", "onError">> /\ ppc' = "stopped"
                     ELSE ppc' = "scheduled" /\ pollTimer' = now + 3000
        /\ cnt'.timeouts > cnt.timeouts
             => /\ ppc = "scheduled"
                /\ cnt'.calls = cnt.calls
                /\ rpc' = "idle"
                /\ now' - startTime > maxDuration ]_vars

\* a 'completed' status fetched by a request that outlived the ceiling was
\* passed to onUpdate and onComplete, and no timeout was reported
C18_Witness ==
    /\ Poll
    /\ now - startTime > maxDuration
    /\ cnt.timeouts = 0
    /\ ppc = "stopped"
    /\ lastCycle = <<"onUpdate", "onComplete">>
    /\ cnt.complete = 1

\* C19: the promise returned by pollPipelineStatus is pending exactly while the
\* first cycle waits for its status call, and is resolved, never rejected, once
\* that cycle has handled the outcome (whether it scheduled the next poll or
\* stopped, and whether the call failed or not); every later cycle, hence
\* every later status call, runs with the promise already resolved.
C19_SettlesAfterFirstCycle ==
    /\ [](Poll =>
            /\ pollPromise \in {"pending", "resolved"}
            /\ pollPromise = "pending" <=> (ppc = "awaiting" /\ cnt.calls = 1)
            /\ cnt.calls >= 2 => pollPromise = "resolved"
            /\ ppc \in {"scheduled", "stopped"} => pollPromise = "resolved")
    /\ [][ (pollPromise = "pending" /\ pollPromise' # "pending")
             => /\ pollPromise' = "resolved"
                /\ ppc = "awaiting" /\ ppc' \in {"scheduled", "stopped"}
                /\ cnt.calls = 1 ]_vars

\* the first status call failed: the promise is resolved while the loop goes
\* on with a poll scheduled
C19_Witness ==
    /\ Poll
    /\ pollPromise = "resolved"
    /\ cnt.calls = 1
    /\ cnt.fail = 1
    /\ ppc = "scheduled"
    /\ pollTimer # NoTimer

\* C20: every click shows the notification and adds a timer due 5000 ms later
\* without removing the pending ones.  While the notification shows, a timer is
\* pending that hides it no later than 5000 ms after it appeared and no later
\* than 5000 ms after the last click; with no timer pending it is hidden.  A
\* timer that fires hides it even when timers of later clicks are pending, and
\* once hidden it only shows again through a new click.
C20_ComingSoonTimers ==
    /\ [](op = "landing" =>
            /\ Len(sync.timers) <= sync.clicks
            /\ sync.timers = <<>> => ~sync.showComingSoon
            /\ sync.showComingSoon =>
                 /\ now - sync.shownSince <= 5000
                 /\ now - sync.lastClick <= 5000
                 /\ Head(sync.timers) <= sync.shownSince + 5000
                 /\ Head(sync.timers) <= sync.lastClick + 5000)
    /\ [][ /\ sync'.clicks > sync.clicks
                => /\ sync'.showComingSoon
                   /\ Len(sync'.timers) = Len(sync.timers) + 1
                   /\ sync'.timers[Len(sync'.timers)] = now' + 5000
                   /\ \A i \in 1 .. Len(sync.timers) : sync'.timers[i] = sync.timers[i]
           /\ Len(sync'.timers) < Len(sync.timers)
                => /\ ~sync'.showComingSoon
                   /\ now' = Head(sync.timers)
           /\ (~sync.showComingSoon /\ sync'.showComingSoon)
                => sync'.clicks > sync.clicks ]_vars

\* the timer of the first click has hidden the notification 3000 ms after a
\* second click, whose own timer is still pending
C20_Witness ==
    /\ op = "landing"
    /\ sync.clicks = 2
    /\ ~sync.showComingSoon
    /\ Len(sync.timers) = 1
    /\ now = sync.lastClick + 3000
    /\ Head(sync.timers) = now + 2000

\* C16: when timers fire and every status call returns or fails, the poll loop
\* eventually stops for good with a terminal callback invoked and neither a
\* request nor a timer outstanding; and a cycle that starts more than 24 hours
\* after the poll began stops the loop whatever the statuses and failures
\* before it were.
C16_PollTerminates ==
    /\ <>[]( /\ ppc = "stopped"
             /\ pollTimer = NoTimer
             /\ rpc = "idle"
             /\ cnt.complete + cnt.error >= 1 )
    /\ [][ (ppc = "scheduled" /\ ppc' # "scheduled" /\ now' - startTime > maxDuration)
             => /\ ppc' = "stopped"
                /\ pollTimer' = NoTimer
                /\ cnt'.error = cnt.error + 1 ]_vars

\* the loop was stopped by the ceiling: every fetched status was non-terminal
\* and the failures never reached 10 in a row
C16_Witness ==
    /\ ppc = "stopped"
    /\ cnt.timeouts = 1
    /\ cnt.ok >= 1
    /\ cnt.ok = cnt.nonTerm
    /\ cnt.fail >= 1
    /\ ~Exhausted
    /\ cnt.complete = 0

=============================================================================
